---- MODULE Spec2Model ----
(***************************************************************************)
(* A model of the eviction caches of package cache: the bounded LRU        *)
(* container (lru.go), the Two-Queue cache (two_queue.go) and the Adaptive *)
(* Replacement Cache (arc.go).                                             *)
(*                                                                         *)
(* A cache object is a record; every method is an operator that maps the   *)
(* receiver (and the arguments) to the receiver after the call.  A         *)
(* container/list is a sequence whose first element is the front (most     *)
(* recently used) and whose last element is the back.  The map             *)
(* items : key -> *list.Element is kept as its key set; the element a key  *)
(* maps to is the list element that carries the key.                       *)
(*                                                                         *)
(* Three specifications share the module, one per policy: SpecLRU, Spec2Q  *)
(* and SpecARC.  Each starts before construction, constructs one cache and *)
(* then applies an arbitrary sequence of the public operations to it.      *)
(***************************************************************************)
EXTENDS Integers, Sequences, FiniteSets, TLC

VARIABLES
    lruSt,          \* "new" | "ok" | "err": the result of NewLRU
    lru,            \* the LRU object of SpecLRU
    used,           \* history: the keys in lru, the most recently used (Put, or Get hit) first
    tqSt,           \* "new" | "ok" | "err": the result of the 2Q constructor
    tq,             \* the TwoQueueCache object of Spec2Q
    everFrequent,   \* history: the tracked keys that have been in tq.frequent so far
    arcSt,          \* "new" | "ok" | "err": the result of NewARC
    arc,            \* the ARCCache object of SpecARC
    putVal,         \* history: for each key that holds a value, the value of its latest Put
    last            \* the last call made: its name, arguments and what it observed

vars == <<lruSt, lru, used, tqSt, tq, everFrequent, arcSt, arc, putVal, last>>

----------------------------------------------------------------------------
(* Bounds of the model *)

MaxKey == 3

\* ARC spreads its keys over four lists: it takes one key more than the
\* other two policies, so that B1 can hold two ghosts while T1 is full.
MaxARCKey == 4

MaxSize == 2

Keys == 1..MaxKey

ARCKeys == 1..MaxARCKey

\* The payloads handed to Put (non-nil).
Values == {1}

\* The sizes handed to the constructors; -1 and 0 are the non-positive ones.
Sizes == -1..MaxSize

\* The untyped nil stored as the value of a ghost entry, and returned on a miss.
nil == 0

----------------------------------------------------------------------------
(* container/list *)

\* The position of the element carrying key (contents are unique per key).
IndexOf(l, key) == CHOOSE i \in 1..Len(l) : l[i].Key = key

RemoveAt(l, i) == SubSeq(l, 1, i - 1) \o SubSeq(l, i + 1, Len(l))

MoveToFront(l, i) == <<l[i]>> \o RemoveAt(l, i)

PushFront(l, item) == <<item>> \o l

ListKeys(l) == {l[i].Key : i \in 1..Len(l)}

----------------------------------------------------------------------------
(* lru.go *)

Item(key, value) == [Key |-> key, Value |-> value]

\* The object NewLRU returns for a positive size.
NewLRU(size) == [size |-> size, evictList |-> <<>>, items |-> {}]

\* NewLRU's error return.
NewLRUFails(size) == size <= 0

LRULen(c) == Len(c.evictList)

contains(c, key) == key \in c.items

\* Peek that moves the element it finds to the front, as Get does.
LRUAfterPeekMoves(c, key) ==
    IF key \in c.items
    THEN [c EXCEPT !.evictList = MoveToFront(@, IndexOf(@, key))]
    ELSE c

\* Peek: the receiver after the call (Peek only reads it).
LRUAfterPeek(c, key) == c

\* Peek: the (value, found) returned.
LRUPeek(c, key) ==
    IF key \in c.items
    THEN [value |-> c.evictList[IndexOf(c.evictList, key)].Value, ok |-> TRUE]
    ELSE [value |-> nil, ok |-> FALSE]

\* Get that leaves the recency order alone.
LRUGetNoMove(c, key) == c

\* Get: the receiver after the call (a hit moves the element to the front).
LRUGet(c, key) ==
    IF key \in c.items
    THEN [c EXCEPT !.evictList = MoveToFront(@, IndexOf(@, key))]
    ELSE c

removeElement(c, i) ==
    [c EXCEPT !.evictList = RemoveAt(@, i),
              !.items = @ \ {c.evictList[i].Key}]

removeOldest(c) ==
    IF Len(c.evictList) > 0 THEN removeElement(c, Len(c.evictList)) ELSE c

\* getAndRemoveOldest: the receiver after the call and the (key, value, ok) returned.
getAndRemoveOldest(c) ==
    IF Len(c.evictList) > 0
    THEN [c |-> removeElement(c, Len(c.evictList)),
          k |-> c.evictList[Len(c.evictList)].Key,
          v |-> c.evictList[Len(c.evictList)].Value,
          ok |-> TRUE]
    ELSE [c |-> c, k |-> 0, v |-> nil, ok |-> FALSE]

removeIfExist(c, key) ==
    IF key \in c.items THEN removeElement(c, IndexOf(c.evictList, key)) ELSE c

LRURemove(c, key) == removeIfExist(c, key)

LRUPurge(c) == [c EXCEPT !.items = {}, !.evictList = <<>>]

\* Put with the capacity check dropped.
LRUPutNoEvict(c, key, value) ==
    IF key \in c.items
    THEN [c EXCEPT !.evictList =
              <<Item(key, value)>> \o RemoveAt(@, IndexOf(@, key))]
    ELSE [c EXCEPT !.evictList = PushFront(@, Item(key, value)),
                   !.items = @ \cup {key}]

LRUPut(c, key, value) ==
    IF key \in c.items
    THEN [c EXCEPT !.evictList =
              <<Item(key, value)>> \o RemoveAt(@, IndexOf(@, key))]
    ELSE LET d == [c EXCEPT !.evictList = PushFront(@, Item(key, value)),
                            !.items = @ \cup {key}]
         IN  IF LRULen(d) > d.size THEN removeOldest(d) ELSE d

----------------------------------------------------------------------------
(* The record of the last call.  Everything in it is an observation: the   *)
(* call's name and arguments, where the key was when the call was made,    *)
(* and the keys that left the first and the second value-holding list      *)
(* (LRU list / recent / T1, and frequent / T2) during the call.            *)

\* What a call without a (value, found) result leaves in the record.
NoRet == [value |-> nil, ok |-> FALSE]

Call(op, key, args, hit, out1, out2) ==
    [op |-> op, key |-> key, args |-> args, hit |-> hit, out1 |-> out1, out2 |-> out2,
     ret |-> NoRet]

\* The record of a call that returned (value, found).
WithRet(call, ret) == [call EXCEPT !.ret = ret]

\* The keys any of the three specifications may use.
AllKeys == Keys \cup ARCKeys

NoPuts == [k \in AllKeys |-> nil]

\* putVal after a call: the value of the call's Put for its key, the value
\* recorded before for the other keys, nil for the keys that hold no value
\* (holding: the keys in a value-holding list after the call).
PutValAfter(op, key, value, holding) ==
    [k \in AllKeys |->
        IF k \notin holding THEN nil
        ELSE IF op = "Put" /\ k = key THEN value
        ELSE putVal[k]]

\* The use order after a Put or a Get hit on key.
Touch(u, key) == <<key>> \o SelectSeq(u, LAMBDA k : k # key)

\* The use order of the keys that are still present.
Restrict(u, present) == SelectSeq(u, LAMBDA k : k \in present)

NoCall == Call("none", 0, <<>>, "none", {}, {})

NoLRU == NewLRU(0)

----------------------------------------------------------------------------
(* SpecLRU: one bounded LRU container *)

LRUWhere(c, key) == IF contains(c, key) THEN "lru" ELSE "none"

LRUObserve(op, key, c, d) ==
    Call(op, key, <<>>, LRUWhere(c, key), c.items \ d.items, {})

OthersOfLRU == <<tqSt, tq, everFrequent, arcSt, arc>>

LRUNew(size) ==
    /\ lruSt = "new"
    /\ IF NewLRUFails(size)
       THEN lruSt' = "err" /\ lru' = lru
       ELSE lruSt' = "ok" /\ lru' = NewLRU(size)
    /\ last' = Call("NewLRU", 0, <<size>>, "none", {}, {})
    /\ UNCHANGED <<used, putVal, OthersOfLRU>>

LRUGetCall(key) ==
    /\ lruSt = "ok"
    /\ lru' = LRUGet(lru, key)
    /\ last' = WithRet(LRUObserve("Get", key, lru, lru'), LRUPeek(lru, key))
    /\ used' = Restrict(IF contains(lru, key) THEN Touch(used, key) ELSE used, lru'.items)
    /\ putVal' = PutValAfter("Get", key, nil, lru'.items)
    /\ UNCHANGED <<lruSt, OthersOfLRU>>

LRUPutCall(key, value) ==
    /\ lruSt = "ok"
    /\ lru' = LRUPut(lru, key, value)
    /\ last' = LRUObserve("Put", key, lru, lru')
    /\ used' = Restrict(Touch(used, key), lru'.items)
    /\ putVal' = PutValAfter("Put", key, value, lru'.items)
    /\ UNCHANGED <<lruSt, OthersOfLRU>>

LRUPeekCall(key) ==
    /\ lruSt = "ok"
    /\ lru' = LRUAfterPeek(lru, key)
    /\ last' = WithRet(LRUObserve("Peek", key, lru, lru'), LRUPeek(lru, key))
    /\ used' = Restrict(used, lru'.items)
    /\ putVal' = PutValAfter("Peek", key, nil, lru'.items)
    /\ UNCHANGED <<lruSt, OthersOfLRU>>

LRURemoveCall(key) ==
    /\ lruSt = "ok"
    /\ lru' = LRURemove(lru, key)
    /\ last' = LRUObserve("Remove", key, lru, lru')
    /\ used' = Restrict(used, lru'.items)
    /\ putVal' = PutValAfter("Remove", key, nil, lru'.items)
    /\ UNCHANGED <<lruSt, OthersOfLRU>>

LRUPurgeCall ==
    /\ lruSt = "ok"
    /\ lru' = LRUPurge(lru)
    /\ last' = Call("Purge", 0, <<>>, "none", lru.items, {})
    /\ used' = Restrict(used, lru'.items)
    /\ putVal' = PutValAfter("Purge", 0, nil, lru'.items)
    /\ UNCHANGED <<lruSt, OthersOfLRU>>


LRUInit ==
    /\ lruSt = "new"
    /\ lru = NoLRU
    /\ used = <<>>
    /\ putVal = NoPuts
    /\ last = NoCall

----------------------------------------------------------------------------
(* two_queue.go *)

\* A ratio is a float64; the model takes the ratios that are whole quarters,
\* r standing for r/4: -1 is -0.25, 4 is 1.0 and 5 is 1.25.  Quarters and
\* their products with small integers are exact in float64.
Ratios == {-1, 0, 1, 2, 4, 5}

\* defaultRecentRatio = 0.25, in quarters
defaultRecentRatio == 1

\* defaultGhostRatio = 0.50, in quarters
defaultGhostRatio == 2

\* int(float64(size) * ratio) for a ratio of r quarters, size >= 0 and r >= 0:
\* the conversion truncates the product size * r / 4.
IntOfProduct(size, r) == (size * r) \div 4

RatioInvalid(r) == r < 0 \/ r > 4

\* newTowQueueParams returns an error.
newTowQueueParamsFails(size, recentRatio, ghostRatio) ==
    \/ size <= 0
    \/ RatioInvalid(recentRatio)
    \/ RatioInvalid(ghostRatio)
    \/ NewLRUFails(size)
    \/ NewLRUFails(IntOfProduct(size, ghostRatio))

\* The object newTowQueueParams returns when it returns no error.
newTowQueueParams(size, recentRatio, ghostRatio) ==
    [size       |-> size,
     recentSize |-> IntOfProduct(size, recentRatio),
     recent     |-> NewLRU(size),
     frequent   |-> NewLRU(size),
     evict      |-> NewLRU(IntOfProduct(size, ghostRatio))]

TQLen(q) == LRULen(q.recent) + LRULen(q.frequent)

\* ensureSpace that drops recent's oldest entry without recording it in ghost.
ensureSpaceNoGhost(q, recentEvict) ==
    IF LRULen(q.recent) + LRULen(q.frequent) < q.size
    THEN q
    ELSE IF /\ LRULen(q.recent) > 0
            /\ \/ LRULen(q.recent) > q.recentSize
               \/ (LRULen(q.recent) = q.recentSize /\ ~recentEvict)
         THEN [q EXCEPT !.recent = removeOldest(@)]
         ELSE [q EXCEPT !.frequent = removeOldest(@)]

\* ensureSpace with the boundary test taken on recentEvict instead of its
\* negation.
ensureSpaceFlagInverted(q, recentEvict) ==
    IF LRULen(q.recent) + LRULen(q.frequent) < q.size
    THEN q
    ELSE IF /\ LRULen(q.recent) > 0
            /\ \/ LRULen(q.recent) > q.recentSize
               \/ (LRULen(q.recent) = q.recentSize /\ recentEvict)
         THEN LET r == getAndRemoveOldest(q.recent)
              IN  [q EXCEPT !.recent = r.c, !.evict = LRUPut(@, r.k, nil)]
         ELSE [q EXCEPT !.frequent = removeOldest(@)]

ensureSpace(q, recentEvict) ==
    IF LRULen(q.recent) + LRULen(q.frequent) < q.size
    THEN q
    ELSE IF /\ LRULen(q.recent) > 0
            /\ \/ LRULen(q.recent) > q.recentSize
               \/ (LRULen(q.recent) = q.recentSize /\ ~recentEvict)
         THEN LET r == getAndRemoveOldest(q.recent)
              IN  [q EXCEPT !.recent = r.c, !.evict = LRUPut(@, r.k, nil)]
         ELSE [q EXCEPT !.frequent = removeOldest(@)]

\* Get whose promotion from recent stores no value in frequent.
TQGetDropsValue(q, key) ==
    IF LRUPeek(q.frequent, key).ok
    THEN [q EXCEPT !.frequent = LRUGet(@, key)]
    ELSE IF LRUPeek(q.recent, key).ok
         THEN [q EXCEPT !.recent = LRURemove(@, key),
                        !.frequent = LRUPut(@, key, nil)]
         ELSE q

TQGet(q, key) ==
    IF LRUPeek(q.frequent, key).ok
    THEN [q EXCEPT !.frequent = LRUGet(@, key)]
    ELSE IF LRUPeek(q.recent, key).ok
         THEN [q EXCEPT !.recent = LRURemove(@, key),
                        !.frequent = LRUPut(@, key, LRUPeek(q.recent, key).value)]
         ELSE q

\* Put on a ghost key that leaves the ghost entry in place.
TQPutGhostKeepGhost(q, key, value) ==
    LET q1 == ensureSpace(q, TRUE)
    IN  [q1 EXCEPT !.frequent = LRUPut(@, key, value)]

\* Put on a ghost key that admits the key to recent instead of frequent.
TQPutGhostIntoRecent(q, key, value) ==
    LET q1 == ensureSpace(q, TRUE)
        q2 == [q1 EXCEPT !.evict = LRURemove(@, key)]
    IN  [q2 EXCEPT !.recent = LRUPut(@, key, value)]

\* Put on a key that is in the ghost list.
TQPutGhost(q, key, value) ==
    LET q1 == ensureSpace(q, TRUE)
        q2 == [q1 EXCEPT !.evict = LRURemove(@, key)]
    IN  [q2 EXCEPT !.frequent = LRUPut(@, key, value)]

\* Put on a key that is in none of the three lists.
TQPutNew(q, key, value) ==
    LET q1 == ensureSpace(q, FALSE)
    IN  [q1 EXCEPT !.recent = LRUPut(@, key, value)]

TQPut(q, key, value) ==
    IF contains(q.frequent, key)
    THEN [q EXCEPT !.frequent = LRUPut(@, key, value)]
    ELSE IF contains(q.recent, key)
         THEN [q EXCEPT !.recent = LRURemove(@, key),
                        !.frequent = LRUPut(@, key, value)]
         ELSE IF contains(q.evict, key)
              THEN TQPutGhost(q, key, value)
              ELSE TQPutNew(q, key, value)

\* Get: the (value, found) returned.
TQGetRet(q, key) ==
    IF LRUPeek(q.frequent, key).ok
    THEN LRUPeek(q.frequent, key)
    ELSE IF LRUPeek(q.recent, key).ok
         THEN LRUPeek(q.recent, key)
         ELSE NoRet

\* Peek: the receiver after the call.
TQAfterPeek(q, key) ==
    IF LRUPeek(q.frequent, key).ok
    THEN [q EXCEPT !.frequent = LRUAfterPeek(@, key)]
    ELSE [q EXCEPT !.frequent = LRUAfterPeek(@, key),
                   !.recent = LRUAfterPeek(@, key)]

\* Peek: the (value, found) returned.
TQPeek(q, key) ==
    IF LRUPeek(q.frequent, key).ok
    THEN LRUPeek(q.frequent, key)
    ELSE LRUPeek(q.recent, key)

\* Remove that leaves the ghost list alone.
TQRemoveKeepGhost(q, key) ==
    IF contains(q.frequent, key)
    THEN [q EXCEPT !.frequent = removeIfExist(@, key)]
    ELSE [q EXCEPT !.recent = removeIfExist(@, key)]

TQRemove(q, key) ==
    IF contains(q.frequent, key)
    THEN [q EXCEPT !.frequent = removeIfExist(@, key)]
    ELSE IF contains(q.recent, key)
         THEN [q EXCEPT !.recent = removeIfExist(@, key)]
         ELSE [q EXCEPT !.evict = removeIfExist(@, key)]

TQPurge(q) ==
    [q EXCEPT !.recent = LRUPurge(@),
              !.frequent = LRUPurge(@),
              !.evict = LRUPurge(@)]

----------------------------------------------------------------------------
(* Spec2Q: one Two-Queue cache *)

No2Q ==
    [size |-> 0, recentSize |-> 0, recent |-> NoLRU, frequent |-> NoLRU, evict |-> NoLRU]

TQWhere(q, key) ==
    IF contains(q.frequent, key) THEN "frequent"
    ELSE IF contains(q.recent, key) THEN "recent"
    ELSE IF contains(q.evict, key) THEN "ghost"
    ELSE "none"

TQObserve(op, key, q, r) ==
    Call(op, key, <<>>, TQWhere(q, key),
         q.recent.items \ r.recent.items, q.frequent.items \ r.frequent.items)

OthersOf2Q == <<lruSt, lru, used, arcSt, arc>>

TQConstruct(op, size, recentRatio, ghostRatio) ==
    /\ tqSt = "new"
    /\ IF newTowQueueParamsFails(size, recentRatio, ghostRatio)
       THEN tqSt' = "err" /\ tq' = tq
       ELSE tqSt' = "ok" /\ tq' = newTowQueueParams(size, recentRatio, ghostRatio)
    /\ last' = Call(op, 0, <<size, recentRatio, ghostRatio>>, "none", {}, {})
    /\ UNCHANGED <<everFrequent, putVal, OthersOf2Q>>

\* NewTwoQueueCache(size)
TQNewDefault(size) ==
    TQConstruct("NewTwoQueueCache", size, defaultRecentRatio, defaultGhostRatio)

\* newTowQueueParams(size, recentRatio, ghostRatio)
TQNewParams(size, recentRatio, ghostRatio) ==
    TQConstruct("newTowQueueParams", size, recentRatio, ghostRatio)

\* The keys whose history everFrequent follows.
Tracked == {1}

\* The keys that hold a value in a 2Q cache.
TQHolding(q) == q.recent.items \cup q.frequent.items

\* A call (op, key, value) that leaves the cache as r and returns ret.
TQStep(op, key, value, r, ret) ==
    /\ tq' = r
    /\ last' = WithRet(TQObserve(op, key, tq, tq'), ret)
    /\ everFrequent' = everFrequent \cup (tq'.frequent.items \cap Tracked)
    /\ putVal' = PutValAfter(op, key, value, TQHolding(tq'))
    /\ UNCHANGED <<tqSt, OthersOf2Q>>

TQGetCall(key) ==
    tqSt = "ok" /\ TQStep("Get", key, nil, TQGet(tq, key), TQGetRet(tq, key))

TQPutCall(key, value) ==
    tqSt = "ok" /\ TQStep("Put", key, value, TQPut(tq, key, value), NoRet)

TQPeekCall(key) ==
    tqSt = "ok" /\ TQStep("Peek", key, nil, TQAfterPeek(tq, key), TQPeek(tq, key))

TQRemoveCall(key) ==
    tqSt = "ok" /\ TQStep("Remove", key, nil, TQRemove(tq, key), NoRet)

TQPurgeCall ==
    /\ tqSt = "ok"
    /\ tq' = TQPurge(tq)
    /\ last' = Call("Purge", 0, <<>>, "none", tq.recent.items, tq.frequent.items)
    /\ putVal' = PutValAfter("Purge", 0, nil, TQHolding(tq'))
    /\ UNCHANGED <<tqSt, everFrequent, OthersOf2Q>>

TQInit ==
    /\ tqSt = "new"
    /\ tq = No2Q
    /\ everFrequent = {}

----------------------------------------------------------------------------
(* arc.go.  The LRU methods it calls under exported names (Contains,       *)
(* Remove returning bool, RemoveOldest, GetAndRemoveOldest) are the        *)
(* container's contains, removeIfExist, removeOldest, getAndRemoveOldest.  *)

\* NewARC returns an error (from the first NewLRU).
NewARCFails(size) == NewLRUFails(size)

\* The object NewARC returns when it returns no error.
NewARC(size) ==
    [size |-> size, p |-> 0,
     t1 |-> NewLRU(size), b1 |-> NewLRU(size),
     t2 |-> NewLRU(size), b2 |-> NewLRU(size)]

ARCLen(c) == LRULen(c.t1) + LRULen(c.t2)

replace(c, b2ContainsKey) ==
    IF /\ LRULen(c.t1) > 0
       /\ \/ LRULen(c.t1) > c.p
          \/ (LRULen(c.t1) = c.p /\ b2ContainsKey)
    THEN LET r == getAndRemoveOldest(c.t1)
         IN  IF r.ok
             THEN [c EXCEPT !.t1 = r.c, !.b1 = LRUPut(@, r.k, nil)]
             ELSE c
    ELSE LET r == getAndRemoveOldest(c.t2)
         IN  IF r.ok
             THEN [c EXCEPT !.t2 = r.c, !.b2 = LRUPut(@, r.k, nil)]
             ELSE c

ARCGet(c, key) ==
    IF LRUPeek(c.t1, key).ok
    THEN [c EXCEPT !.t1 = removeIfExist(@, key),
                   !.t2 = LRUPut(@, key, LRUPeek(c.t1, key).value)]
    ELSE IF LRUPeek(c.t2, key).ok
         THEN [c EXCEPT !.t2 = LRUGet(@, key)]
         ELSE c

\* The increase of p without the clamp at size.
IncreasePNoClamp(c) ==
    LET b1Len == LRULen(c.b1)
        b2Len == LRULen(c.b2)
        delta == IF b2Len > b1Len THEN b2Len \div b1Len ELSE 1
    IN  c.p + delta

\* The increase of p with delta = len(B2) / len(B1), which is 0 when B1 is
\* the longer list.
IncreasePNoFloor(c) ==
    LET b1Len == LRULen(c.b1)
        b2Len == LRULen(c.b2)
        delta == b2Len \div b1Len
    IN  IF c.p + delta >= c.size THEN c.size ELSE c.p + delta

\* The new p of a Put that hits B1: p increased by delta, clamped at size.
IncreaseP(c) ==
    LET b1Len == LRULen(c.b1)
        b2Len == LRULen(c.b2)
        delta == IF b2Len > b1Len THEN b2Len \div b1Len ELSE 1
    IN  IF c.p + delta >= c.size THEN c.size ELSE c.p + delta

\* The new p of a Put that hits B2: p decreased by delta, clamped at 0.
DecreaseP(c) ==
    LET b1Len == LRULen(c.b1)
        b2Len == LRULen(c.b2)
        delta == IF b1Len > b2Len THEN b1Len \div b2Len ELSE 1
    IN  IF delta >= c.p THEN 0 ELSE c.p - delta

\* Put on a B1 key that leaves the ghost entry in B1.
ARCPutB1KeepGhost(c, key, value) ==
    LET c1 == [c EXCEPT !.p = IncreaseP(c)]
        c2 == IF LRULen(c1.t1) + LRULen(c1.t2) >= c1.size THEN replace(c1, FALSE) ELSE c1
    IN  [c2 EXCEPT !.t2 = LRUPut(@, key, value)]

\* Put on a key that is in B1.
ARCPutB1(c, key, value) ==
    LET c1 == [c EXCEPT !.p = IncreaseP(c)]
        c2 == IF LRULen(c1.t1) + LRULen(c1.t2) >= c1.size THEN replace(c1, FALSE) ELSE c1
        c3 == [c2 EXCEPT !.b1 = removeIfExist(@, key)]
    IN  [c3 EXCEPT !.t2 = LRUPut(@, key, value)]

\* Put on a key that is in B2.
ARCPutB2(c, key, value) ==
    LET c1 == [c EXCEPT !.p = DecreaseP(c)]
        c2 == IF LRULen(c1.t1) + LRULen(c1.t2) >= c1.size THEN replace(c1, TRUE) ELSE c1
        c3 == [c2 EXCEPT !.b2 = removeIfExist(@, key)]
    IN  [c3 EXCEPT !.t2 = LRUPut(@, key, value)]

\* Put on a key that is in none of the four lists.
ARCPutNew(c, key, value) ==
    LET c1 == IF LRULen(c.t1) + LRULen(c.t2) >= c.size THEN replace(c, FALSE) ELSE c
        c2 == IF LRULen(c1.b1) > c1.size - c1.p
              THEN [c1 EXCEPT !.b1 = removeOldest(@)] ELSE c1
        c3 == IF LRULen(c2.b2) > c2.p
              THEN [c2 EXCEPT !.b2 = removeOldest(@)] ELSE c2
    IN  [c3 EXCEPT !.t1 = LRUPut(@, key, value)]

ARCPut(c, key, value) ==
    IF contains(c.t1, key)
    THEN [c EXCEPT !.t1 = removeIfExist(@, key),
                   !.t2 = LRUPut(@, key, value)]
    ELSE IF contains(c.t2, key)
         THEN [c EXCEPT !.t2 = LRUPut(@, key, value)]
         ELSE IF contains(c.b1, key)
              THEN ARCPutB1(c, key, value)
              ELSE IF contains(c.b2, key)
                   THEN ARCPutB2(c, key, value)
                   ELSE ARCPutNew(c, key, value)

\* Get: the (value, found) returned.
ARCGetRet(c, key) ==
    IF LRUPeek(c.t1, key).ok
    THEN LRUPeek(c.t1, key)
    ELSE IF LRUPeek(c.t2, key).ok
         THEN LRUPeek(c.t2, key)
         ELSE NoRet

\* Peek: the receiver after the call.
ARCAfterPeek(c, key) ==
    IF LRUPeek(c.t1, key).ok
    THEN [c EXCEPT !.t1 = LRUAfterPeek(@, key)]
    ELSE [c EXCEPT !.t1 = LRUAfterPeek(@, key),
                   !.t2 = LRUAfterPeek(@, key)]

\* Peek: the (value, found) returned.
ARCPeek(c, key) ==
    IF LRUPeek(c.t1, key).ok
    THEN LRUPeek(c.t1, key)
    ELSE LRUPeek(c.t2, key)

ARCRemove(c, key) ==
    IF contains(c.t1, key)
    THEN [c EXCEPT !.t1 = removeIfExist(@, key)]
    ELSE IF contains(c.t2, key)
         THEN [c EXCEPT !.t2 = removeIfExist(@, key)]
         ELSE IF contains(c.b1, key)
              THEN [c EXCEPT !.b1 = removeIfExist(@, key)]
              ELSE [c EXCEPT !.b2 = removeIfExist(@, key)]

\* Purge that leaves the ghost lists alone.
ARCPurgeKeepGhosts(c) ==
    [c EXCEPT !.t1 = LRUPurge(@), !.t2 = LRUPurge(@)]

\* Purge that also resets p.
ARCPurgeResetsP(c) ==
    [c EXCEPT !.t1 = LRUPurge(@), !.t2 = LRUPurge(@),
              !.b1 = LRUPurge(@), !.b2 = LRUPurge(@), !.p = 0]

ARCPurge(c) ==
    [c EXCEPT !.t1 = LRUPurge(@), !.t2 = LRUPurge(@),
              !.b1 = LRUPurge(@), !.b2 = LRUPurge(@)]

----------------------------------------------------------------------------
(* SpecARC: one Adaptive Replacement Cache *)

NoARC == NewARC(0)

ARCWhere(c, key) ==
    IF contains(c.t1, key) THEN "t1"
    ELSE IF contains(c.t2, key) THEN "t2"
    ELSE IF contains(c.b1, key) THEN "b1"
    ELSE IF contains(c.b2, key) THEN "b2"
    ELSE "none"

ARCObserve(op, key, c, d) ==
    Call(op, key, <<>>, ARCWhere(c, key),
         c.t1.items \ d.t1.items, c.t2.items \ d.t2.items)

OthersOfARC == <<lruSt, lru, used, tqSt, tq, everFrequent>>

ARCNew(size) ==
    /\ arcSt = "new"
    /\ IF NewARCFails(size)
       THEN arcSt' = "err" /\ arc' = arc
       ELSE arcSt' = "ok" /\ arc' = NewARC(size)
    /\ last' = Call("NewARC", 0, <<size>>, "none", {}, {})
    /\ UNCHANGED <<putVal, OthersOfARC>>

\* The keys that hold a value in an ARC cache.
ARCHolding(c) == c.t1.items \cup c.t2.items

\* A call (op, key, value) that leaves the cache as d and returns ret.
ARCStep(op, key, value, d, ret) ==
    /\ arc' = d
    /\ last' = WithRet(ARCObserve(op, key, arc, arc'), ret)
    /\ putVal' = PutValAfter(op, key, value, ARCHolding(arc'))
    /\ UNCHANGED <<arcSt, OthersOfARC>>

ARCGetCall(key) ==
    arcSt = "ok" /\ ARCStep("Get", key, nil, ARCGet(arc, key), ARCGetRet(arc, key))

ARCPutCall(key, value) ==
    arcSt = "ok" /\ ARCStep("Put", key, value, ARCPut(arc, key, value), NoRet)

ARCPeekCall(key) ==
    arcSt = "ok" /\ ARCStep("Peek", key, nil, ARCAfterPeek(arc, key), ARCPeek(arc, key))

ARCRemoveCall(key) ==
    arcSt = "ok" /\ ARCStep("Remove", key, nil, ARCRemove(arc, key), NoRet)

ARCPurgeCall ==
    /\ arcSt = "ok"
    /\ arc' = ARCPurge(arc)
    /\ last' = Call("Purge", 0, <<>>, "none", arc.t1.items, arc.t2.items)
    /\ putVal' = PutValAfter("Purge", 0, nil, ARCHolding(arc'))
    /\ UNCHANGED <<arcSt, OthersOfARC>>

ARCInit ==
    /\ arcSt = "new"
    /\ arc = NoARC

----------------------------------------------------------------------------
(* The specifications *)

Init == LRUInit /\ TQInit /\ ARCInit

LRUNext ==
    \/ \E size \in Sizes : LRUNew(size)
    \/ \E key \in Keys : LRUGetCall(key)
    \/ \E key \in Keys, value \in Values : LRUPutCall(key, value)
    \/ \E key \in Keys : LRUPeekCall(key)
    \/ \E key \in Keys : LRURemoveCall(key)
    \/ LRUPurgeCall

TQNext ==
    \/ \E size \in Sizes : TQNewDefault(size)
    \/ \E size \in Sizes, recentRatio \in Ratios, ghostRatio \in Ratios :
           TQNewParams(size, recentRatio, ghostRatio)
    \/ \E key \in Keys : TQGetCall(key)
    \/ \E key \in Keys, value \in Values : TQPutCall(key, value)
    \/ \E key \in Keys : TQPeekCall(key)
    \/ \E key \in Keys : TQRemoveCall(key)
    \/ TQPurgeCall

ARCNext ==
    \/ \E size \in Sizes : ARCNew(size)
    \/ \E key \in ARCKeys : ARCGetCall(key)
    \/ \E key \in ARCKeys, value \in Values : ARCPutCall(key, value)
    \/ \E key \in ARCKeys : ARCPeekCall(key)
    \/ \E key \in ARCKeys : ARCRemoveCall(key)
    \/ ARCPurgeCall

SpecLRU == Init /\ [][LRUNext]_vars

Spec2Q == Init /\ [][TQNext]_vars

SpecARC == Init /\ [][ARCNext]_vars

\* No cache of another policy has been constructed.
OnlyLRU == tqSt = "new" /\ arcSt = "new"
Only2Q == lruSt = "new" /\ arcSt = "new"
OnlyARC == lruSt = "new" /\ tqSt = "new"

\* A run that constructs a cache of one of the three policies and works on it.
AllNext ==
    \/ \E size \in Sizes : OnlyLRU /\ LRUNew(size)
    \/ \E key \in Keys : OnlyLRU /\ LRUGetCall(key)
    \/ \E key \in Keys, value \in Values : OnlyLRU /\ LRUPutCall(key, value)
    \/ \E key \in Keys : OnlyLRU /\ LRUPeekCall(key)
    \/ \E key \in Keys : OnlyLRU /\ LRURemoveCall(key)
    \/ OnlyLRU /\ LRUPurgeCall
    \/ \E size \in Sizes : Only2Q /\ TQNewDefault(size)
    \/ \E size \in Sizes, recentRatio \in Ratios, ghostRatio \in Ratios :
           Only2Q /\ TQNewParams(size, recentRatio, ghostRatio)
    \/ \E key \in Keys : Only2Q /\ TQGetCall(key)
    \/ \E key \in Keys, value \in Values : Only2Q /\ TQPutCall(key, value)
    \/ \E key \in Keys : Only2Q /\ TQPeekCall(key)
    \/ \E key \in Keys : Only2Q /\ TQRemoveCall(key)
    \/ Only2Q /\ TQPurgeCall
    \/ \E size \in Sizes : OnlyARC /\ ARCNew(size)
    \/ \E key \in Keys : OnlyARC /\ ARCGetCall(key)
    \/ \E key \in Keys, value \in Values : OnlyARC /\ ARCPutCall(key, value)
    \/ \E key \in Keys : OnlyARC /\ ARCPeekCall(key)
    \/ \E key \in Keys : OnlyARC /\ ARCRemoveCall(key)
    \/ OnlyARC /\ ARCPurgeCall

\* SpecAll: one cache of any of the three policies, over the keys of Keys.
SpecAll == Init /\ [][AllNext]_vars

\* The values passed to Put where the value stored matters: two distinct
\* values for the tracked keys, one for the others.
PutValues == {1, 2}

ValuesFor(key) == IF key \in Tracked THEN PutValues ELSE Values

\* As AllNext, with Put drawing its value from ValuesFor(key).
ValuesNext ==
    \/ \E size \in Sizes : OnlyLRU /\ LRUNew(size)
    \/ \E key \in Keys : OnlyLRU /\ LRUGetCall(key)
    \/ \E key \in Keys : \E value \in ValuesFor(key) : OnlyLRU /\ LRUPutCall(key, value)
    \/ \E key \in Keys : OnlyLRU /\ LRUPeekCall(key)
    \/ \E key \in Keys : OnlyLRU /\ LRURemoveCall(key)
    \/ OnlyLRU /\ LRUPurgeCall
    \/ \E size \in Sizes : Only2Q /\ TQNewDefault(size)
    \/ \E size \in Sizes, recentRatio \in Ratios, ghostRatio \in Ratios :
           Only2Q /\ TQNewParams(size, recentRatio, ghostRatio)
    \/ \E key \in Keys : Only2Q /\ TQGetCall(key)
    \/ \E key \in Keys : \E value \in ValuesFor(key) : Only2Q /\ TQPutCall(key, value)
    \/ \E key \in Keys : Only2Q /\ TQPeekCall(key)
    \/ \E key \in Keys : Only2Q /\ TQRemoveCall(key)
    \/ Only2Q /\ TQPurgeCall
    \/ \E size \in Sizes : OnlyARC /\ ARCNew(size)
    \/ \E key \in Keys : OnlyARC /\ ARCGetCall(key)
    \/ \E key \in Keys : \E value \in ValuesFor(key) : OnlyARC /\ ARCPutCall(key, value)
    \/ \E key \in Keys : OnlyARC /\ ARCPeekCall(key)
    \/ \E key \in Keys : OnlyARC /\ ARCRemoveCall(key)
    \/ OnlyARC /\ ARCPurgeCall

\* SpecValues: SpecAll with two distinct values to Put on the tracked keys.
SpecValues == Init /\ [][ValuesNext]_vars

----------------------------------------------------------------------------
(* Properties *)

\* C1: ARC resident bound: after every call on an ARC cache of size >= 1,
\* len(T1) + len(T2) <= size.
C1_ARCResidentBound ==
    arcSt = "ok" => LRULen(arc.t1) + LRULen(arc.t2) <= arc.size

\* C2: 2Q resident bound: after every public operation on a 2Q cache whose
\* construction succeeded, len(recent) + len(frequent) <= size.
C2_TQResidentBound ==
    tqSt = "ok" => LRULen(tq.recent) + LRULen(tq.frequent) <= tq.size

\* C3: ARC adaptation parameter bound: after every call, 0 <= p <= size.
C3_PBounds ==
    arcSt = "ok" => (0 <= arc.p /\ arc.p <= arc.size)

\* A B1 hit has just clamped p at size, in a cache of size > 1.
C3_Witness ==
    /\ arcSt = "ok"
    /\ last.op = "Put"
    /\ last.hit = "b1"
    /\ arc.size > 1
    /\ arc.p = arc.size

\* The last call was a 2Q construction with a size >= 1 and both ratios in [0, 1].
ValidTQArgs ==
    /\ last.op \in {"NewTwoQueueCache", "newTowQueueParams"}
    /\ last.args[1] >= 1
    /\ ~RatioInvalid(last.args[2])
    /\ ~RatioInvalid(last.args[3])

\* C4: 2Q construction is total on valid input: it succeeds for every size >= 1
\* with ratios in [0, 1], and returns an error only for size <= 0 or a ratio
\* outside [0, 1].
C4_ConstructionTotal ==
    last.op \in {"NewTwoQueueCache", "newTowQueueParams"} =>
        (tqSt = "ok" <=> ValidTQArgs)

\* C5: LRU capacity invariant: after every call on an LRU of capacity c >= 1,
\* Len() <= c.
C5_LRUCapacity ==
    lruSt = "ok" => (lru.size >= 1 /\ LRULen(lru) <= lru.size)

\* A Put of a new key into a full LRU has just evicted an entry.
C5_Witness ==
    /\ lruSt = "ok"
    /\ last.op = "Put"
    /\ last.hit = "none"
    /\ last.out1 # {}
    /\ LRULen(lru) = lru.size

\* The lists (given by their key sets, and by the keys on their recency
\* lists) hold pairwise disjoint keys.
Exclusive(lists) ==
    \A i, j \in 1..Len(lists) :
        i # j => /\ lists[i].items \cap lists[j].items = {}
                 /\ ListKeys(lists[i].evictList) \cap ListKeys(lists[j].evictList) = {}

\* C6: ARC key exclusivity: in every reachable state each key is in at most
\* one of T1, T2, B1, B2.
C6_ARCExclusive ==
    arcSt = "ok" => Exclusive(<<arc.t1, arc.t2, arc.b1, arc.b2>>)

\* A B1 ghost hit has just been re-admitted into T2 by a Put whose replace
\* moved a key from T1 into a full B1: B1 overflowed (it is full again although
\* the hit key was taken out of it).
C6_Witness ==
    /\ arcSt = "ok"
    /\ last.op = "Put"
    /\ last.hit = "b1"
    /\ contains(arc.t2, last.key)
    /\ last.out1 # {}
    /\ arc.size > 1
    /\ LRULen(arc.b1) = arc.size

\* C7: 2Q key exclusivity: in every reachable state each key is in at most one
\* of recent, frequent, ghost.
C7_TQExclusive ==
    tqSt = "ok" => Exclusive(<<tq.recent, tq.frequent, tq.evict>>)

\* A Put on a ghost key has just admitted it to frequent while ensureSpace
\* moved another key from recent to ghost.
C7_Witness ==
    /\ tqSt = "ok"
    /\ last.op = "Put"
    /\ last.hit = "ghost"
    /\ contains(tq.frequent, last.key)
    /\ last.out1 # {}
    /\ LRULen(tq.evict) > 0

\* C8 (as stated): 2Q promotion is one-way: once a key has been moved to
\* frequent, no later sequence of operations ever places it in recent again.
C8_NeverBackInRecent ==
    \A k \in everFrequent : ~contains(tq.recent, k)

\* C8 (amended): a Put on a key that is in none of the lists (hence a key's
\* first Put in a fresh cache) places it in recent; a Get or Put on a key in
\* recent moves it to frequent; and a key enters recent only by a Put made
\* while it is in none of recent, frequent and ghost, so no operation moves a
\* key from frequent or ghost to recent.
C8_PromotionOneWay ==
    [][tqSt' = "ok" =>
        \A k \in Keys :
            /\ (last'.op = "Put" /\ last'.key = k /\ last'.hit = "none")
                   => contains(tq'.recent, k)
            /\ (last'.op \in {"Get", "Put"} /\ last'.key = k /\ last'.hit = "recent")
                   => (contains(tq'.frequent, k) /\ ~contains(tq'.recent, k))
            /\ (contains(tq'.recent, k) /\ ~contains(tq.recent, k))
                   => /\ last'.op = "Put"
                      /\ last'.key = k
                      /\ ~contains(tq.frequent, k)
                      /\ ~contains(tq.evict, k)]_vars

\* A key that was in frequent before has just been placed in recent again, by
\* a Put made when it was in no list.
C8_Witness ==
    /\ tqSt = "ok"
    /\ last.op = "Put"
    /\ last.hit = "none"
    /\ last.key \in everFrequent
    /\ contains(tq.recent, last.key)

\* C9: 2Q ghost re-admission: a key that ensureSpace evicts from recent during
\* a Put is in ghost when the Put returns; and after a Put on a key that was in
\* ghost, the key is in frequent and in neither ghost nor recent.
C9_GhostReadmission ==
    (tqSt = "ok" /\ last.op = "Put") =>
        /\ \A k \in last.out1 \ {last.key} : contains(tq.evict, k)
        /\ last.hit = "ghost" =>
               /\ contains(tq.frequent, last.key)
               /\ ~contains(tq.evict, last.key)
               /\ ~contains(tq.recent, last.key)

\* A Put on a ghost key has just landed it in frequent, and its ensureSpace
\* evicted a key from recent, which is now in ghost.
C9_Witness ==
    /\ tqSt = "ok"
    /\ last.op = "Put"
    /\ last.hit = "ghost"
    /\ \E k \in last.out1 : k # last.key /\ contains(tq.evict, k)
    /\ contains(tq.frequent, last.key)

\* C10: ARC ghost-hit tuning: a Put on a key in B1 leaves p strictly greater
\* than before, or equal to size if it was already size; a Put on a key in B2
\* leaves p strictly smaller than before, or equal to 0 if it was already 0.
C10_GhostHitTuning ==
    [][(arcSt' = "ok" /\ last'.op = "Put") =>
        /\ last'.hit = "b1" =>
               \/ arc'.p > arc.p
               \/ (arc.p = arc.size /\ arc'.p = arc.size)
        /\ last'.hit = "b2" =>
               \/ arc'.p < arc.p
               \/ (arc.p = 0 /\ arc'.p = 0)]_vars

\* A B1 hit has just raised p to a value strictly between 0 and size.
C10_Witness ==
    /\ arcSt = "ok"
    /\ last.op = "Put"
    /\ last.hit = "b1"
    /\ 0 < arc.p
    /\ arc.p < arc.size

\* The spec's scenario: capacity 2, Put k1, Put k2, Get k1, Put k3.
C11_Scenario ==
    LRUPut(LRUGet(LRUPut(LRUPut(NewLRU(2), 1, 1), 2, 1), 1), 3, 1)

\* C11: LRU recency-ordered eviction: a Put of a new key into an LRU at
\* capacity evicts exactly one entry, the key whose most recent Put or Get hit
\* is the oldest among the present keys (Peek is no use); the scenario at
\* capacity 2 leaves exactly {k1, k3}.
C11_RecencyEviction ==
    /\ C11_Scenario.items = {1, 3}
    /\ ListKeys(C11_Scenario.evictList) = {1, 3}
    /\ [][(lruSt' = "ok" /\ last'.op = "Put" /\ last'.hit = "none"
              /\ LRULen(lru) = lru.size)
          => /\ last'.out1 = {used[Len(used)]}
             /\ lru'.items = (lru.items \ {used[Len(used)]}) \cup {last'.key}
             /\ ListKeys(lru'.evictList) = lru'.items
             /\ LRULen(lru') = lru.size]_vars

\* A Put of a new key into a full LRU of capacity 2 has just evicted a key
\* that was put after the key that stays: the key that stays was used again
\* (by a Get or a Put) in between.
C11_Witness ==
    /\ lruSt = "ok"
    /\ lru.size = 2
    /\ last.op = "Put"
    /\ last.hit = "none"
    /\ last.out1 = {2}
    /\ used = <<3, 1>>

\* The lists in which a key holds a value.
ValueLists == {"lru", "recent", "frequent", "t1", "t2"}

\* C12: Peek is read-only in all three policies: it leaves the whole state
\* unchanged (contents and recency order of every container, and ARC's p), and
\* it reports found exactly when the key holds a value (in the LRU, in recent
\* or frequent, in T1 or T2), never for a key that is only a ghost.
C12_PeekReadOnly ==
    [][last'.op = "Peek" =>
        /\ lru' = lru
        /\ tq' = tq
        /\ arc' = arc
        /\ last'.ret.ok <=> (last'.hit \in ValueLists)]_vars

\* A Peek has just found a key in recent, and the key is still in recent.
C12_Witness ==
    /\ tqSt = "ok"
    /\ last.op = "Peek"
    /\ last.hit = "recent"
    /\ last.ret.ok
    /\ contains(tq.recent, last.key)
    /\ LRULen(tq.recent) > 1

\* The keys of every container of the three caches, ghost lists included.
EverywhereKeys ==
    lru.items \cup tq.recent.items \cup tq.frequent.items \cup tq.evict.items
        \cup arc.t1.items \cup arc.t2.items \cup arc.b1.items \cup arc.b2.items

EverywhereListKeys ==
    ListKeys(lru.evictList) \cup ListKeys(tq.recent.evictList)
        \cup ListKeys(tq.frequent.evictList) \cup ListKeys(tq.evict.evictList)
        \cup ListKeys(arc.t1.evictList) \cup ListKeys(arc.t2.evictList)
        \cup ListKeys(arc.b1.evictList) \cup ListKeys(arc.b2.evictList)

\* C13: Remove is idempotent in all three policies: after Remove(k) the key is
\* in no container of the cache, ghost lists included, and a second Remove(k)
\* made immediately afterwards changes no state.
C13_IdempotentRemove ==
    last.op = "Remove" =>
        /\ last.key \notin EverywhereKeys
        /\ last.key \notin EverywhereListKeys
        /\ LRURemove(lru, last.key) = lru
        /\ TQRemove(tq, last.key) = tq
        /\ ARCRemove(arc, last.key) = arc

\* A Remove has just dropped a ghost of a Two-Queue cache that still holds
\* other keys.
C13_Witness ==
    /\ tqSt = "ok"
    /\ last.op = "Remove"
    /\ last.hit = "ghost"
    /\ TQLen(tq) > 0

\* C14: Purge empties the cache in all three policies: afterwards Len() is 0,
\* every container, ghost lists included, is empty, and a Get on any key that
\* was present before is not found.
C14_PurgeEmpties ==
    last.op = "Purge" =>
        /\ EverywhereKeys = {}
        /\ EverywhereListKeys = {}
        /\ LRULen(lru) = 0
        /\ TQLen(tq) = 0
        /\ ARCLen(arc) = 0
        /\ \A k \in last.out1 \cup last.out2 :
               /\ ~LRUPeek(lru, k).ok
               /\ ~TQGetRet(tq, k).ok
               /\ ~ARCGetRet(arc, k).ok
               /\ LRUGet(lru, k) = lru
               /\ TQGet(tq, k) = tq
               /\ ARCGet(arc, k) = arc

\* A Purge has just emptied an ARC cache that held keys in T1 and in T2.
C14_Witness ==
    /\ arcSt = "ok"
    /\ last.op = "Purge"
    /\ last.out1 # {}
    /\ last.out2 # {}

\* The keys that hold a value in the cache of the run, and their number as
\* Len() reports it.
HoldingKeys == lru.items \cup TQHolding(tq) \cup ARCHolding(arc)

LenOfCache == LRULen(lru) + TQLen(tq) + ARCLen(arc)

\* C15: update does not grow: in all three policies a Put on a key that
\* already holds a value (in the LRU, in recent or frequent, in T1 or T2)
\* leaves Len() unchanged and evicts nothing, in every reachable state.
C15_UpdateDoesNotGrow ==
    [][(last'.op = "Put" /\ last'.hit \in ValueLists) =>
          /\ LenOfCache' = LenOfCache
          /\ HoldingKeys' = HoldingKeys]_vars

\* The keys at the back of a list: its oldest entry, if it has one.
OldestKeys(c) ==
    IF Len(c.evictList) > 0 THEN {c.evictList[Len(c.evictList)].Key} ELSE {}

\* The Two-Queue cache is full and recent, non-empty, is exactly at its target.
TQBoundary ==
    /\ tqSt = "ok"
    /\ LRULen(tq.recent) + LRULen(tq.frequent) >= tq.size
    /\ LRULen(tq.recent) > 0
    /\ LRULen(tq.recent) = tq.recentSize

\* C16 as stated: at the boundary a Put on a ghost key evicts recent's oldest
\* entry into ghost, whereas a Put of a brand-new key does not evict from
\* recent but evicts frequent's oldest entry.
C16_TieBreakAsStated ==
    [][(TQBoundary /\ last'.op = "Put") =>
          /\ last'.hit = "ghost" =>
                /\ last'.out1 = OldestKeys(tq.recent)
                /\ OldestKeys(tq.recent) \subseteq tq'.evict.items
          /\ last'.hit = "none" =>
                /\ last'.out1 = {}
                /\ last'.out2 = OldestKeys(tq.frequent)]_vars

\* C16: 2Q boundary tie-break: when the cache is full and recent is non-empty
\* with len(recent) = recentSize, a Put on a ghost key (recentEvict = true)
\* leaves recent as it is and drops frequent's oldest entry, if there is one,
\* without a ghost, whereas a Put of a brand-new key (recentEvict = false)
\* evicts recent's oldest entry into ghost and evicts nothing from frequent.
C16_TieBreak ==
    [][(TQBoundary /\ last'.op = "Put") =>
          /\ last'.hit = "ghost" =>
                /\ tq'.recent = tq.recent
                /\ last'.out2 = OldestKeys(tq.frequent)
                /\ OldestKeys(tq.frequent) \cap tq'.evict.items = {}
          /\ last'.hit = "none" =>
                /\ last'.out1 = OldestKeys(tq.recent)
                /\ OldestKeys(tq.recent) \subseteq tq'.evict.items
                /\ tq'.frequent = tq.frequent]_vars

\* A Put on a ghost key at the boundary has just dropped frequent's oldest
\* entry and left recent, still at its target, alone.
C16_Witness ==
    /\ tqSt = "ok"
    /\ last.op = "Put"
    /\ last.hit = "ghost"
    /\ last.out1 = {}
    /\ last.out2 # {}
    /\ LRULen(tq.recent) > 0
    /\ LRULen(tq.recent) = tq.recentSize

\* A Put on a key that is in neither T1 nor T2 is about to be made on a full
\* ARC cache.
ARCFullAdmission ==
    /\ arcSt = "ok"
    /\ last'.op = "Put"
    /\ last'.hit \in {"b1", "b2", "none"}
    /\ LRULen(arc.t1) + LRULen(arc.t2) >= arc.size

\* C17: ARC eviction is always remembered: whenever a Put on a key that is in
\* neither T1 nor T2 is made while len(T1)+len(T2) >= size, exactly one
\* resident key leaves T1 or T2 during that Put, and when the Put returns that
\* key is a ghost, in B1 if it left T1 and in B2 if it left T2.
C17_EvictionRemembered ==
    [][ARCFullAdmission =>
          /\ Cardinality(last'.out1 \cup last'.out2) = 1
          /\ last'.out1 \subseteq arc'.b1.items
          /\ last'.out2 \subseteq arc'.b2.items]_vars

\* The Put evicts T1's oldest entry and nothing else.
T1IsVictim ==
    /\ OldestKeys(arc.t1) # {}
    /\ last'.out1 = OldestKeys(arc.t1)
    /\ last'.out2 = {}

\* The Put evicts T2's oldest entry and nothing else.
T2IsVictim ==
    /\ OldestKeys(arc.t2) # {}
    /\ last'.out2 = OldestKeys(arc.t2)
    /\ last'.out1 = {}

\* C18: ARC replace tie-break: when an eviction is triggered with T1 non-empty
\* and len(T1) = p (p as replace reads it, after the ghost-hit update), a Put
\* that hit B2 evicts T1's oldest entry, while a Put that hit B1 or a Put of a
\* brand-new key evicts T2's oldest entry; when len(T1) > p T1 is always the
\* victim and when len(T1) < p T2 is always the victim.
C18_ReplaceTieBreak ==
    [][ARCFullAdmission =>
          /\ (LRULen(arc.t1) > 0 /\ LRULen(arc.t1) = arc'.p) =>
                IF last'.hit = "b2" THEN T1IsVictim ELSE T2IsVictim
          /\ LRULen(arc.t1) > arc'.p => T1IsVictim
          /\ LRULen(arc.t1) < arc'.p => T2IsVictim]_vars

\* C20: ARC's p changes only on ghost hits: Get, Peek, Remove, Purge and any
\* Put on a key that is in T1, in T2 or in no list leave p unchanged; only a Put
\* on a key that is in B1 or B2 can change p, so Purge empties the four lists
\* without resetting p.
C20_POnlyOnGhostHits ==
    [][arc'.p # arc.p => (last'.op = "Put" /\ last'.hit \in {"b1", "b2"})]_vars

\* A Purge has just emptied the four lists of a cache whose p is positive.
C20_Witness ==
    /\ arcSt = "ok"
    /\ last.op = "Purge"
    /\ arc.p > 0
    /\ arc.t1.items \cup arc.t2.items \cup arc.b1.items \cup arc.b2.items = {}

\* C19: value coherence: in all three policies, whenever Get(k) or Peek(k)
\* reports found, the value returned is the value passed to the most recent
\* Put(k, v): promotion and ghost re-admission never return a stale value or
\* the value-less payload of a ghost.
C19_ValueCoherence ==
    (last.op \in {"Get", "Peek"} /\ last.ret.ok) =>
        /\ last.ret.value \in PutValues
        /\ last.ret.value = putVal[last.key]

\* A Get has just found in frequent a key whose latest Put passed the second
\* value.
C19_Witness ==
    /\ tqSt = "ok"
    /\ last.op = "Get"
    /\ last.hit = "frequent"
    /\ last.ret.ok
    /\ last.ret.value = 2

====
